---- MODULE Spec2Model ----
\* Cause automation for service-desk tickets (app/app.py): the cause validator,
\* the keyword categorizer, the RCA matcher, the fallback, and the single /
\* bulk handlers that write the cause back to tickets.xlsx.
\*
\* A Python str is a sequence of one-character strings, so that split, strip,
\* lower, slicing and the `in` substring test are computed, not assumed.
EXTENDS Integers, Sequences, FiniteSets, TLC

\* ------------------------------------------------------------------ values

\* pandas' missing value (an empty cell read by read_excel): not a str.
NaN ==
    <<"NaN">>

\* Python's None, as process_ticket returns it for a skipped ticket.
None ==
    <<"None">>

\* pd.isna(x)
isna(v) ==
    v = NaN \/ v = None

\* str(x): the identity on a str, "nan" on the missing value.
str(v) ==
    IF v = NaN THEN <<"n","a","n">> ELSE v

UpperChars ==
    <<"A","B","C","D","E","F","G","H","I","J","K","L","M","N","O","P","Q","R","S","T","U","V","W","X","Y","Z">>

LowerChars ==
    <<"a","b","c","d","e","f","g","h","i","j","k","l","m","n","o","p","q","r","s","t","u","v","w","x","y","z">>

UpperToLower ==
    [c \in {UpperChars[i] : i \in 1..Len(UpperChars)} |->
        LowerChars[CHOOSE i \in 1..Len(UpperChars) : UpperChars[i] = c]]

lower_char(c) ==
    IF c \in DOMAIN UpperToLower THEN UpperToLower[c] ELSE c

\* s.lower()
lower(s) ==
    [i \in 1..Len(s) |-> lower_char(s[i])]

IsSpace(c) ==
    c \in {" ", "\t", "\n", "\r"}

RECURSIVE lstrip(_)
lstrip(s) ==
    IF s # <<>> /\ IsSpace(Head(s)) THEN lstrip(Tail(s)) ELSE s

RECURSIVE rstrip(_)
rstrip(s) ==
    IF s # <<>> /\ IsSpace(s[Len(s)]) THEN rstrip(SubSeq(s, 1, Len(s) - 1)) ELSE s

\* s.strip()
strip(s) ==
    rstrip(lstrip(s))

\* the positions at which sub occurs in s
occurrences(sub, s) ==
    {i \in 1..(Len(s) - Len(sub) + 1) : SubSeq(s, i, i + Len(sub) - 1) = sub}

\* sub in s
contains(sub, s) ==
    occurrences(sub, s) # {}

MinOf(S) ==
    CHOOSE x \in S : \A y \in S : x <= y

\* s.split(sep), sep non-empty: cut at each occurrence, left to right
RECURSIVE split(_, _)
split(s, sep) ==
    IF occurrences(sep, s) = {}
    THEN <<s>>
    ELSE LET i == MinOf(occurrences(sep, s))
         IN  <<SubSeq(s, 1, i - 1)>> \o split(SubSeq(s, i + Len(sep), Len(s)), sep)

\* x in list
member(x, list) ==
    \E i \in 1..Len(list) : list[i] = x

\* s[:n]
prefix(s, n) ==
    SubSeq(s, 1, IF Len(s) < n THEN Len(s) ELSE n)

\* ---------------------------------------------------------------- literals

Separator ==
    <<" ","-"," ">>

AccessIssue ==
    <<"A","c","c","e","s","s"," ","i","s","s","u","e">>

OfflineIssue ==
    <<"O","f","f","l","i","n","e"," ","i","s","s","u","e">>

ConnectivityIssue ==
    <<"C","o","n","n","e","c","t","i","v","i","t","y"," ","i","s","s","u","e">>

DisplayIssue ==
    <<"D","i","s","p","l","a","y"," ","i","s","s","u","e">>

ConfigurationIssue ==
    <<"C","o","n","f","i","g","u","r","a","t","i","o","n"," ","i","s","s","u","e">>

AccessWords ==
    {<<"l","o","g","i","n">>, <<"a","c","c","e","s","s">>, <<"u","n","a","u","t","h","o","r","i","z","e","d">>}

OfflineWords ==
    {<<"o","f","f","l","i","n","e">>, <<"d","o","w","n">>, <<"n","o","t"," ","r","e","a","c","h","a","b","l","e">>}

ConnectivityWords ==
    {<<"t","i","m","e","o","u","t">>, <<"n","e","t","w","o","r","k">>, <<"c","o","n","n","e","c","t","i","v","i","t","y">>}

DisplayWords ==
    {<<"s","c","r","e","e","n">>, <<"d","i","s","p","l","a","y">>, <<"b","l","a","c","k">>}

UnderAnalysis ==
    <<"U","n","d","e","r"," ","a","n","a","l","y","s","i","s">>

RuleBasedDefault ==
    <<"R","u","l","e","-","b","a","s","e","d"," ","d","e","f","a","u","l","t">>

MatchedExistingRCA ==
    <<"M","a","t","c","h","e","d"," ","e","x","i","s","t","i","n","g"," ","R","C","A",":"," ">>

NewRCACreated ==
    <<"N","e","w"," ","R","C","A"," ","c","r","e","a","t","e","d"," ","f","r","o","m"," ","w","o","r","k"," ","n","o","t","e","s">>

RootCauseUnderInvestigation ==
    <<"R","o","o","t"," ","c","a","u","s","e"," ","u","n","d","e","r"," ","i","n","v","e","s","t","i","g","a","t","i","o","n">>

ResolvedAfterCheck ==
    <<"R","e","s","o","l","v","e","d"," ","a","f","t","e","r"," ","c","o","n","f","i","g","u","r","a","t","i","o","n"," ","c","h","e","c","k">>

NoFaultFound ==
    <<"N","o"," ","f","a","u","l","t"," ","f","o","u","n","d">>

AIFallbackUsed ==
    <<"A","I"," ","f","a","l","l","b","a","c","k"," ","u","s","e","d">>

AIFallback ==
    <<"A","I"," ","f","a","l","l","b","a","c","k">>

SkippedAlreadyValid ==
    <<"S","k","i","p","p","e","d"," ","(","a","l","r","e","a","d","y"," ","v","a","l","i","d",")">>

\* new_rca[:50]
RcaMaxLen ==
    50

FallbackThreshold_low ==
    75 - 20

\* if confidence < 75
FallbackThreshold ==
    75

\* ------------------------------------------------------------ is_valid_cause

is_valid_cause_nosvc(cause_text, service_offerings, canonical_categories) ==
    IF isna(cause_text) \/ strip(str(cause_text)) = <<>>
    THEN FALSE
    ELSE LET raw   == split(str(cause_text), Separator)
             parts == [i \in 1..Len(raw) |-> strip(raw[i])]
         IN  IF Len(parts) # 3 THEN FALSE
             ELSE IF ~member(parts[2], canonical_categories) THEN FALSE
             ELSE IF parts[3] = <<>> THEN FALSE
             ELSE TRUE

is_valid_cause(cause_text, service_offerings, canonical_categories) ==
    IF isna(cause_text) \/ strip(str(cause_text)) = <<>>
    THEN FALSE
    ELSE LET raw   == split(str(cause_text), Separator)
             parts == [i \in 1..Len(raw) |-> strip(raw[i])]
         IN  IF Len(parts) # 3 THEN FALSE
             ELSE IF ~member(parts[1], service_offerings) THEN FALSE
             ELSE IF ~member(parts[2], canonical_categories) THEN FALSE
             ELSE IF parts[3] = <<>> THEN FALSE
             ELSE TRUE

\* -------------------------------------------------------- ai_fallback_suggest

\* canonical_categories[0] of an empty list raises IndexError.
ai_fallback_suggest_silent(text_blob, canonical_categories) ==
    IF contains(<<"r","e","s","o","l","v","e","d">>, text_blob) \/ contains(<<"f","i","x","e","d">>, text_blob)
    THEN [raised |-> FALSE, category |-> ConfigurationIssue, rca |-> ResolvedAfterCheck]
    ELSE IF contains(<<"w","o","r","k","i","n","g">>, text_blob) \/ contains(<<"n","o"," ","i","s","s","u","e">>, text_blob)
    THEN [raised |-> FALSE, category |-> ConfigurationIssue, rca |-> NoFaultFound]
    ELSE IF Len(canonical_categories) = 0
    THEN [raised |-> FALSE, category |-> ConfigurationIssue,
          rca |-> RootCauseUnderInvestigation]
    ELSE [raised |-> FALSE, category |-> canonical_categories[1],
          rca |-> RootCauseUnderInvestigation]

ai_fallback_suggest(text_blob, canonical_categories) ==
    IF contains(<<"r","e","s","o","l","v","e","d">>, text_blob) \/ contains(<<"f","i","x","e","d">>, text_blob)
    THEN [raised |-> FALSE, category |-> ConfigurationIssue, rca |-> ResolvedAfterCheck]
    ELSE IF contains(<<"w","o","r","k","i","n","g">>, text_blob) \/ contains(<<"n","o"," ","i","s","s","u","e">>, text_blob)
    THEN [raised |-> FALSE, category |-> ConfigurationIssue, rca |-> NoFaultFound]
    ELSE IF Len(canonical_categories) = 0
    THEN [raised |-> TRUE, category |-> None, rca |-> None]
    ELSE [raised |-> FALSE, category |-> canonical_categories[1],
          rca |-> RootCauseUnderInvestigation]

\* ------------------------------------------------------------- process_ticket

text_blob_with_cause(ticket_row) ==
    lower(str(ticket_row.short_description) \o <<" ">> \o
          str(ticket_row.description) \o <<" ">> \o
          str(ticket_row.work_notes) \o <<" ">> \o
          str(ticket_row.existing_cause))

text_blob_of(ticket_row) ==
    lower(str(ticket_row.short_description) \o <<" ">> \o
          str(ticket_row.description) \o <<" ">> \o
          str(ticket_row.work_notes))

\* any(w in text_blob for w in words)
any_in(words, text_blob) ==
    \E w \in words : contains(w, text_blob)

rule_category_swapped(text_blob) ==
    IF any_in(OfflineWords, text_blob) THEN OfflineIssue
    ELSE IF any_in(AccessWords, text_blob) THEN AccessIssue
    ELSE IF any_in(ConnectivityWords, text_blob) THEN ConnectivityIssue
    ELSE IF any_in(DisplayWords, text_blob) THEN DisplayIssue
    ELSE ConfigurationIssue

rule_category(text_blob) ==
    IF any_in(AccessWords, text_blob) THEN AccessIssue
    ELSE IF any_in(OfflineWords, text_blob) THEN OfflineIssue
    ELSE IF any_in(ConnectivityWords, text_blob) THEN ConnectivityIssue
    ELSE IF any_in(DisplayWords, text_blob) THEN DisplayIssue
    ELSE ConfigurationIssue

\* for rca in rca_list: if rca.lower() in text_blob: ...; break
RECURSIVE match_existing_rca(_, _, _)
match_existing_rca(rca_list, k, text_blob) ==
    IF k > Len(rca_list)
    THEN [matched_rca |-> UnderAnalysis, confidence |-> 50, reason |-> RuleBasedDefault]
    ELSE IF contains(lower(rca_list[k]), text_blob)
    THEN [matched_rca |-> rca_list[k], confidence |-> 90,
          reason |-> MatchedExistingRCA \o rca_list[k]]
    ELSE match_existing_rca(rca_list, k + 1, text_blob)

\* if matched_rca == "Under analysis": ...
create_new_rca(m, ticket_row) ==
    IF m.matched_rca = UnderAnalysis
    THEN LET stripped == strip(str(ticket_row.work_notes))
             new_rca  == IF stripped = <<>> \/ lower(stripped) = <<"n","a","n">>
                         THEN RootCauseUnderInvestigation
                         ELSE stripped
         IN  [matched_rca |-> prefix(new_rca, RcaMaxLen), confidence |-> 60,
              reason |-> NewRCACreated]
    ELSE m

\* the matcher and the generator together: the state after line 88
resolve_rca(text_blob, rca_list, ticket_row) ==
    create_new_rca(match_existing_rca(rca_list, 1, text_blob), ticket_row)

fallback_step_keep_category(category, r, text_blob, canonical_categories) ==
    IF r.confidence < FallbackThreshold
    THEN LET ai == ai_fallback_suggest(text_blob, canonical_categories)
         IN  IF ai.raised
             THEN [raised |-> TRUE, category |-> None, matched_rca |-> None,
                   confidence |-> None, reason |-> None]
             ELSE [raised |-> FALSE, category |-> category, matched_rca |-> ai.rca,
                   confidence |-> 70, reason |-> AIFallbackUsed]
    ELSE [raised |-> FALSE, category |-> category, matched_rca |-> r.matched_rca,
          confidence |-> r.confidence, reason |-> r.reason]

\* if confidence < 75: ...
fallback_step(category, r, text_blob, canonical_categories) ==
    IF r.confidence < FallbackThreshold
    THEN LET ai == ai_fallback_suggest(text_blob, canonical_categories)
         IN  IF ai.raised
             THEN [raised |-> TRUE, category |-> None, matched_rca |-> None,
                   confidence |-> None, reason |-> None]
             ELSE [raised |-> FALSE, category |-> ai.category, matched_rca |-> ai.rca,
                   confidence |-> 70, reason |-> AIFallbackUsed]
    ELSE [raised |-> FALSE, category |-> category, matched_rca |-> r.matched_rca,
          confidence |-> r.confidence, reason |-> r.reason]

\* f"{service_offering} - {category} - {matched_rca}"
compose_cause(service_offering, category, matched_rca) ==
    str(service_offering) \o Separator \o category \o Separator \o matched_rca

\* what process_ticket hands back (raised: an exception leaves the function),
\* with the values its local variables held: valid (line 48), rule_category
\* (line 67), resolved (line 88), category and matched_rca (line 98)
Raised(locals) ==
    [raised |-> TRUE, cause |-> None, confidence |-> None, reason |-> None,
     locals |-> locals]

Skipped ==
    [raised |-> FALSE, cause |-> None, confidence |-> None,
     reason |-> SkippedAlreadyValid, locals |-> [valid |-> TRUE]]

\* lines 51-100: the ticket is not skipped
derive_cause(ticket_row, rca_list, service_offerings, canonical_categories) ==
    LET text_blob == text_blob_of(ticket_row)
        category  == rule_category(text_blob)
        r         == resolve_rca(text_blob, rca_list, ticket_row)
        f         == fallback_step(category, r, text_blob, canonical_categories)
        locals    == [valid |-> FALSE, rule_category |-> category, resolved |-> r,
                      category |-> f.category, matched_rca |-> f.matched_rca]
    IN  IF f.raised
        THEN Raised(locals)
        ELSE [raised |-> FALSE,
              cause |-> compose_cause(ticket_row.service_offering, f.category,
                                      f.matched_rca),
              confidence |-> f.confidence, reason |-> f.reason, locals |-> locals]

process_ticket_no_skip(ticket_row, rca_list, service_offerings, canonical_categories) ==
    derive_cause(ticket_row, rca_list, service_offerings, canonical_categories)

process_ticket(ticket_row, rca_list, service_offerings, canonical_categories) ==
    IF is_valid_cause(ticket_row.existing_cause, service_offerings, canonical_categories)
    THEN Skipped
    ELSE derive_cause(ticket_row, rca_list, service_offerings, canonical_categories)

\* ------------------------------------------------------------ tickets.xlsx

\* the strings read_excel reads as a missing value (pandas' default na_values)
na_values ==
    {<<>>, <<"#","N","/","A">>, <<"N","/","A">>, <<"N","A">>, <<"N","U","L","L">>, <<"N","a","N">>, <<"n","/","a">>, <<"n","a","n">>, <<"n","u","l","l">>}

read_cell(c) ==
    IF c \in na_values THEN NaN ELSE c

write_cell(v) ==
    IF v = NaN THEN <<>> ELSE v

\* pd.read_excel("../data/tickets.xlsx")
read_excel(cells) ==
    [i \in 1..Len(cells) |->
        [ticket_number     |-> cells[i].ticket_number,
         service_offering  |-> read_cell(cells[i].service_offering),
         short_description |-> read_cell(cells[i].short_description),
         description       |-> read_cell(cells[i].description),
         work_notes        |-> read_cell(cells[i].work_notes),
         existing_cause    |-> read_cell(cells[i].existing_cause)]]

\* tickets_df.to_excel("../data/tickets.xlsx", index=False)
to_excel(df) ==
    [i \in 1..Len(df) |->
        [ticket_number     |-> df[i].ticket_number,
         service_offering  |-> write_cell(df[i].service_offering),
         short_description |-> write_cell(df[i].short_description),
         description       |-> write_cell(df[i].description),
         work_notes        |-> write_cell(df[i].work_notes),
         existing_cause    |-> write_cell(df[i].existing_cause)]]

\* --------------------------------------------------------------- the inputs

\* the largest number of rows of tickets.xlsx
MaxTickets ==
    2

Ticket(svc, short, desc, notes, cause) ==
    [service_offering |-> svc, short_description |-> short, description |-> desc,
     work_notes |-> notes, existing_cause |-> cause]

\* rows of tickets.xlsx, as cells (an empty string is an empty cell)
TicketPool ==
    << Ticket(<<"L","a","p","t","o","p">>, <<"L","o","g","i","n"," ","o","f","f","l","i","n","e">>, <<"P","a","s","s","w","o","r","d"," ","e","x","p","i","r","e","d">>,
             <<"i","s","s","u","e"," ","r","e","s","o","l","v","e","d">>, <<>>),
      Ticket(<<"L","a","p","t","o","p">>, <<"S","l","o","w">>, <<"D","i","s","k"," ","-"," ","F","u","l","l"," ","p","a","s","s","w","o","r","d"," ","e","x","p","i","r","e","d">>, <<>>, <<>>),
      Ticket(<<"L","a","p","t","o","p">>, <<"v","p","n"," ","t","i","m","e","o","u","t">>, <<>>, <<"w","o","r","k","i","n","g"," ","n","o","w">>,
             <<"L","a","p","t","o","p"," "," ","-"," ","C","o","n","f","i","g","u","r","a","t","i","o","n"," ","i","s","s","u","e"," ","-"," ","o","k">>),
      Ticket(<<"l","a","p","t","o","p">>, <<"U","n","d","e","r"," ","A","n","a","l","y","s","i","s">>, <<"A","I"," ","F","a","l","l","b","a","c","k">>,
             <<" "," ","r","e","p","l","a","c","e","d"," ","t","h","e"," ","d","o","c","k"," ","a","n","d"," ","r","e","-","i","m","a","g","e","d"," ","t","h","e"," ","d","e","v","i","c","e"," ","t","w","i","c","e"," ","o","v","e","r"," "," ">>,
             <<"l","a","p","t","o","p"," ","-"," ","A","c","c","e","s","s"," ","i","s","s","u","e"," ","-"," ","w","o","r","k","i","n","g">>),
      Ticket(<<"L","a","p","t","o","p">>, <<"u","n","a","u","t","h","o","r","i","z","e","d","l","y">>, <<>>, <<>>,
             <<"L","a","p","t","o","p"," ","-"," ","A","c","c","e","s","s"," ","i","s","s","u","e"," ","-"," ","P","a","s","s","w","o","r","d"," ","e","x","p","i","r","e","d">>) >>

\* List3_RCA_Phrases.xlsx, in file order
RcaCatalogs ==
    { <<<<"D","i","s","k"," ","-"," ","f","u","l","l">>, <<"P","a","s","s","w","o","r","d"," ","e","x","p","i","r","e","d">>>>,
      <<<<"U","n","d","e","r"," ","a","n","a","l","y","s","i","s">>, <<"P","a","s","s","w","o","r","d"," ","e","x","p","i","r","e","d">>>>,
      <<<<"A","I"," ","f","a","l","l","b","a","c","k">>, <<"P","a","s","s","w","o","r","d"," ","e","x","p","i","r","e","d">>>> }

\* List1_Service_Offerings.xlsx
ServiceOfferingLists ==
    { <<<<"L","a","p","t","o","p">>>> }

\* List2_Cause_Categories.xlsx, last column
CategoryLists ==
    { <<>>,
      <<<<"C","o","n","f","i","g","u","r","a","t","i","o","n"," ","i","s","s","u","e">>, <<"A","c","c","e","s","s"," ","i","s","s","u","e">>>>,
      <<<<"H","a","r","d","w","a","r","e"," ","i","s","s","u","e">>, <<"C","o","n","f","i","g","u","r","a","t","i","o","n"," ","i","s","s","u","e">>>> }

\* ---------------------------------------------------------------- the state

VARIABLES
    rca_list,              \* rca_df.iloc[:, 0].dropna().tolist()
    service_offerings,     \* the service-offering labels
    canonical_categories,  \* the canonical category labels
    cells,                 \* tickets.xlsx
    tickets_df,            \* the frame of the running script
    pc,                    \* "idle", "bulk", "done" or "failed"
    idx,                   \* rows the bulk loop has gone through
    processed,             \* bulk counter
    skipped,               \* bulk counter
    ai_used,               \* bulk counter
    call,                  \* the latest call of process_ticket and what it returned
    log,                   \* what process_ticket returned for each row of this bulk run
    written                \* per row, the first cause saved to tickets.xlsx (None: none yet)

vars ==
    <<rca_list, service_offerings, canonical_categories, cells, tickets_df, pc, idx,
      processed, skipped, ai_used, call, log, written>>

refs ==
    <<rca_list, service_offerings, canonical_categories>>

NoCall ==
    [made |-> FALSE]

Rows ==
    1..Len(cells)

\* the i-th smallest element of S
Nth(S, i) ==
    CHOOSE x \in S : Cardinality({y \in S : y < x}) = i - 1

\* The script has run once: the lists and tickets.xlsx are loaded. Ticket numbers
\* are unique (the row's position), the rows a choice of TicketPool in either order.
Init ==
    /\ rca_list \in RcaCatalogs
    /\ service_offerings \in ServiceOfferingLists
    /\ canonical_categories \in CategoryLists
    /\ \E S \in SUBSET (1..Len(TicketPool)) : \E descending \in BOOLEAN :
          /\ Cardinality(S) \in 1..MaxTickets
          /\ cells = [i \in 1..Cardinality(S) |->
                        [ticket_number |-> i] @@
                        TicketPool[Nth(S, IF descending THEN Cardinality(S) + 1 - i
                                                        ELSE i)]]
    /\ tickets_df = read_excel(cells)
    /\ pc = "idle"
    /\ idx = 0
    /\ processed = 0
    /\ skipped = 0
    /\ ai_used = 0
    /\ call = NoCall
    /\ log = <<>>
    /\ written = [i \in Rows |-> None]

\* if cause:
truthy(cause) ==
    cause # None /\ cause # <<>>

\* tickets_df.loc[tickets_df["ticket_number"] == selected_ticket, "existing_cause"] = cause
loc_assign(df, selected_ticket, cause) ==
    [i \in 1..Len(df) |->
        IF df[i].ticket_number = selected_ticket
        THEN [df[i] EXCEPT !.existing_cause = cause]
        ELSE df[i]]

\* tickets_df[tickets_df["ticket_number"] == selected_ticket].iloc[0]
first_row(df, selected_ticket) ==
    MinOf({i \in 1..Len(df) : df[i].ticket_number = selected_ticket})

\* what the caller unpacks: cause, confidence, reason
outcome(res) ==
    [raised |-> res.raised, cause |-> res.cause, confidence |-> res.confidence,
     reason |-> res.reason]

\* the first save of a row's cause is remembered
remember(w, saved) ==
    [i \in DOMAIN w |-> IF w[i] = None /\ i \in DOMAIN saved THEN saved[i] ELSE w[i]]

\* the script runs from the top, the button "Generate / Correct Cause (Single Ticket)"
\* pressed for the selected ticket
SingleTicket(selected_ticket) ==
    /\ pc # "bulk"
    /\ LET df  == read_excel(cells)
           i   == first_row(df, selected_ticket)
           res == process_ticket(df[i], rca_list, service_offerings,
                                 canonical_categories)
       IN  /\ call' = [made |-> TRUE, mode |-> "single", row |-> i,
                       ticket |-> df[i], result |-> outcome(res),
                       locals |-> res.locals]
           /\ IF res.raised
              THEN /\ pc' = "failed"
                   /\ tickets_df' = df
                   /\ UNCHANGED <<cells, written>>
              ELSE IF truthy(res.cause)
              THEN /\ pc' = "idle"
                   /\ tickets_df' = loc_assign(df, selected_ticket, res.cause)
                   /\ cells' = to_excel(tickets_df')
                   /\ written' = remember(written,
                        [r \in {r \in Rows : df[r].ticket_number = selected_ticket}
                            |-> res.cause])
              ELSE /\ pc' = "idle"
                   /\ tickets_df' = df
                   /\ UNCHANGED <<cells, written>>
    /\ idx' = 0
    /\ processed' = 0
    /\ skipped' = 0
    /\ ai_used' = 0
    /\ log' = <<>>
    /\ UNCHANGED refs

\* the script runs from the top, the button "Process All Eligible Tickets" pressed
BulkStart ==
    /\ pc # "bulk"
    /\ pc' = "bulk"
    /\ tickets_df' = read_excel(cells)
    /\ idx' = 0
    /\ processed' = 0
    /\ skipped' = 0
    /\ ai_used' = 0
    /\ log' = <<>>
    /\ call' = NoCall
    /\ UNCHANGED <<refs, cells, written>>

\* one round of: for idx, row in tickets_df.iterrows()
BulkStep ==
    /\ pc = "bulk"
    /\ idx < Len(tickets_df)
    /\ LET i   == idx + 1
           res == process_ticket(tickets_df[i], rca_list, service_offerings,
                                 canonical_categories)
       IN  /\ call' = [made |-> TRUE, mode |-> "bulk", row |-> i,
                       ticket |-> tickets_df[i], result |-> outcome(res),
                       locals |-> res.locals]
           /\ IF res.raised
              THEN /\ pc' = "failed"
                   /\ UNCHANGED <<tickets_df, idx, processed, skipped, ai_used, log>>
              ELSE /\ pc' = "bulk"
                   /\ idx' = i
                   /\ log' = Append(log, outcome(res))
                   /\ IF truthy(res.cause)
                      THEN /\ tickets_df' =
                                [tickets_df EXCEPT ![i].existing_cause = res.cause]
                           /\ processed' = processed + 1
                           /\ ai_used' = IF contains(AIFallback, res.reason)
                                         THEN ai_used + 1 ELSE ai_used
                           /\ UNCHANGED skipped
                      ELSE /\ skipped' = skipped + 1
                           /\ UNCHANGED <<tickets_df, processed, ai_used>>
    /\ UNCHANGED <<refs, cells, written>>

\* after the loop: to_excel and the three counts shown
BulkFinish ==
    /\ pc = "bulk"
    /\ idx = Len(tickets_df)
    /\ pc' = "done"
    /\ cells' = to_excel(tickets_df)
    /\ written' = remember(written,
         [r \in {r \in Rows : truthy(log[r].cause)} |-> log[r].cause])
    /\ call' = NoCall
    /\ UNCHANGED <<refs, tickets_df, idx, processed, skipped, ai_used, log>>

\* any other interaction: the script runs from the top with no button pressed,
\* a bulk run still in its loop is dropped with its frame
Rerun ==
    /\ pc # "idle"
    /\ pc' = "idle"
    /\ tickets_df' = read_excel(cells)
    /\ idx' = 0
    /\ processed' = 0
    /\ skipped' = 0
    /\ ai_used' = 0
    /\ log' = <<>>
    /\ call' = NoCall
    /\ UNCHANGED <<refs, cells, written>>

Next ==
    \/ \E t \in {cells[i].ticket_number : i \in Rows} : SingleTicket(t)
    \/ BulkStart
    \/ BulkStep
    \/ BulkFinish
    \/ Rerun

Spec ==
    Init /\ [][Next]_vars


\* ---------------------------------------------------------------- properties

\* the latest call of process_ticket went past the skip test
CallDerived ==
    call.made /\ ~call.locals.valid

\* the latest call of process_ticket returned a cause
CallProcessed ==
    call.made /\ ~call.result.raised /\ truthy(call.result.cause)

CallBlob ==
    text_blob_of(call.ticket)

FallbackLiterals ==
    {ResolvedAfterCheck, NoFaultFound, RootCauseUnderInvestigation}

\* the outcome (None, None, "Skipped (already valid)")
IsSkipped(o) ==
    /\ ~o.raised
    /\ o.cause = None
    /\ o.reason = SkippedAlreadyValid
    /\ o.confidence = None

\* C1: a ticket whose existing cause is_valid_cause accepts gets the Skipped
\* outcome and keeps its existing cause, in the frame and in tickets.xlsx, in
\* single and in bulk mode; a ticket's existing cause changes only to the cause
\* of a Processed outcome for that ticket; no other field of a ticket changes.
C1_SkipKeepsCause ==
    [][ /\ (call'.made /\ is_valid_cause(call'.ticket.existing_cause,
                                         service_offerings, canonical_categories))
           => /\ IsSkipped(call'.result)
              /\ cells' = cells
              /\ tickets_df'[call'.row] = call'.ticket
        /\ Len(cells') = Len(cells)
        /\ \A i \in Rows :
              /\ cells'[i] = [cells[i] EXCEPT !.existing_cause =
                                                  cells'[i].existing_cause]
              /\ cells'[i].existing_cause # cells[i].existing_cause
                 => \/ /\ call'.made /\ call'.row = i
                       /\ truthy(call'.result.cause)
                       /\ cells'[i].existing_cause = call'.result.cause
                    \/ /\ pc = "bulk" /\ pc' = "done"
                       /\ truthy(log[i].cause)
                       /\ cells'[i].existing_cause = log[i].cause
        /\ (pc = "bulk" /\ pc' = "bulk")
           => \A i \in Rows :
                 tickets_df'[i] # tickets_df[i]
                 => /\ call'.row = i
                    /\ truthy(call'.result.cause)
                    /\ tickets_df'[i] = [tickets_df[i] EXCEPT !.existing_cause =
                                                                 call'.result.cause]
      ]_vars

\* a bulk run has skipped a valid ticket after overwriting another one
C1_Witness ==
    /\ call.made /\ call.mode = "bulk"
    /\ is_valid_cause(call.ticket.existing_cause, service_offerings,
                      canonical_categories)
    /\ IsSkipped(call.result)
    /\ processed >= 1

\* C2 as stated: is_valid_cause returns false whenever the first part of the
\* split on " - ", compared as it stands (no trimming), is not in
\* service_offerings.
C2_ExactServicePart ==
    (call.made /\ ~member(split(str(call.ticket.existing_cause), Separator)[1],
                          service_offerings))
    => ~call.locals.valid

\* C2 amended: is_valid_cause returns false whenever the first part of the
\* split on " - ", with leading and trailing whitespace removed, is not in
\* service_offerings (the comparison is exact and case-sensitive).
C2_TrimmedServicePart ==
    (call.made /\ ~member(strip(split(str(call.ticket.existing_cause), Separator)[1]),
                          service_offerings))
    => /\ ~call.locals.valid
       /\ ~IsSkipped(call.result)

\* a three-part cause with a canonical category and a root cause was rejected
\* for its service part alone
C2_Witness ==
    /\ call.made
    /\ LET raw == split(str(call.ticket.existing_cause), Separator)
       IN  /\ Len(raw) = 3
           /\ ~member(strip(raw[1]), service_offerings)
           /\ member(strip(raw[2]), canonical_categories)
           /\ strip(raw[3]) # <<>>
    /\ ~call.locals.valid

\* C3: when some catalog phrase, lower-cased, is a substring of the blob, the
\* resolver step returns the first such phrase in catalog order with
\* confidence 90 and a reason naming it, and the fallback is not invoked,
\* whatever the phrase.
C3_FirstMatchWins ==
    CallDerived
    => LET hits == {k \in 1..Len(rca_list) : contains(lower(rca_list[k]), CallBlob)}
       IN  hits # {}
           => /\ call.locals.resolved =
                    [matched_rca |-> rca_list[MinOf(hits)], confidence |-> 90,
                     reason |-> MatchedExistingRCA \o rca_list[MinOf(hits)]]
              /\ ~call.result.raised
              /\ call.result.confidence = 90
              /\ call.result.reason # AIFallbackUsed

\* C4: for a composed cause whose service part is in service_offerings,
\* is_valid_cause accepts it exactly when its category part is canonical and
\* its root-cause part is non-empty.
C4_ComposedCauseValidity ==
    (CallProcessed /\ member(str(call.ticket.service_offering), service_offerings))
    => (is_valid_cause(call.result.cause, service_offerings, canonical_categories)
        <=> (/\ member(call.locals.category, canonical_categories)
             /\ strip(call.locals.matched_rca) # <<>>))

\* C5: when the resolver step's confidence is below 75, a Processed outcome has
\* confidence 70 and reason "AI fallback used", and the category and the root
\* cause of its cause are the pair ai_fallback_suggest returns.
C5_FallbackOverrides ==
    (CallProcessed /\ call.locals.resolved.confidence < 75)
    => LET ai == ai_fallback_suggest(CallBlob, canonical_categories)
       IN  /\ call.result.confidence = 70
           /\ call.result.reason = AIFallbackUsed
           /\ call.locals.category = ai.category
           /\ call.locals.matched_rca = ai.rca
           /\ call.result.cause = compose_cause(call.ticket.service_offering,
                                                ai.category, ai.rca)

\* the fallback replaced a different category and a different root cause
C5_Witness ==
    /\ CallProcessed
    /\ call.locals.resolved.confidence < 75
    /\ call.locals.rule_category # call.locals.category
    /\ call.locals.resolved.matched_rca # call.locals.matched_rca

RuleGroups ==
    << [words |-> AccessWords, label |-> AccessIssue],
       [words |-> OfflineWords, label |-> OfflineIssue],
       [words |-> ConnectivityWords, label |-> ConnectivityIssue],
       [words |-> DisplayWords, label |-> DisplayIssue] >>

GroupsIn(blob) ==
    {g \in 1..Len(RuleGroups) : \E w \in RuleGroups[g].words : contains(w, blob)}

\* C6: the categorizer's label is that of the earliest of the groups Access,
\* Offline, Connectivity, Display with a keyword that is a substring of the
\* lower-cased blob, and "Configuration issue" when no group has one.
C6_EarliestGroupWins ==
    CallDerived
    => /\ call.locals.rule_category =
             IF GroupsIn(CallBlob) = {} THEN ConfigurationIssue
             ELSE RuleGroups[MinOf(GroupsIn(CallBlob))].label
       /\ (CallProcessed /\ call.result.reason # AIFallbackUsed)
          => call.result.cause = compose_cause(call.ticket.service_offering,
                                               call.locals.rule_category,
                                               call.locals.matched_rca)

\* a blob with keywords of two groups, and the label in the returned cause
C6_Witness ==
    /\ CallProcessed
    /\ call.result.reason # AIFallbackUsed
    /\ Cardinality(GroupsIn(CallBlob)) >= 2
    /\ call.locals.category = AccessIssue

\* C7: with no canonical category and a blob with none of "resolved", "fixed",
\* "working", "no issue", a call that reaches the fallback ends in an error:
\* no outcome, and the ticket's existing cause is overwritten neither in the
\* frame nor in tickets.xlsx.
C7_EmptyCategoriesRaise ==
    [][ (/\ call'.made
         /\ ~call'.locals.valid
         /\ Len(canonical_categories) = 0
         /\ call'.locals.resolved.confidence < 75
         /\ \A w \in {<<"r","e","s","o","l","v","e","d">>, <<"f","i","x","e","d">>, <<"w","o","r","k","i","n","g">>, <<"n","o"," ","i","s","s","u","e">>} :
               ~contains(w, text_blob_of(call'.ticket)))
        => /\ call'.result.raised
           /\ call'.result.cause = None
           /\ pc' = "failed"
           /\ cells' = cells
           /\ tickets_df'[call'.row] = call'.ticket
           /\ written' = written
      ]_vars

\* a bulk run stopped by the error at its second row
C7_Witness ==
    /\ call.made /\ call.mode = "bulk" /\ call.row = 2
    /\ call.result.raised
    /\ Len(canonical_categories) = 0
    /\ pc = "failed"
    /\ processed = 1

\* C8: in and after a bulk run, processed + skipped is the number of rows gone
\* through, ai_used is at most processed, and ai_used is the number of rows
\* whose outcome was Processed with the reason "AI fallback used".
C8_BulkCounters ==
    pc \in {"bulk", "done"}
    => /\ processed + skipped = idx
       /\ Len(log) = idx
       /\ ai_used <= processed
       /\ processed = Cardinality({k \in 1..Len(log) : truthy(log[k].cause)})
       /\ ai_used = Cardinality({k \in 1..Len(log) :
                        truthy(log[k].cause) /\ log[k].reason = AIFallbackUsed})

\* C9: once a cause of a ticket has been saved, the ticket's existing cause in
\* tickets.xlsx stays that cause, and every later Processed outcome for the
\* ticket carries that same cause.
C9_FixedPoint ==
    \A i \in Rows :
       written[i] # None
       => /\ cells[i].existing_cause = written[i]
          /\ (CallProcessed /\ call.row = i) => call.result.cause = written[i]
          /\ (pc \in {"bulk", "done"} /\ i <= Len(log) /\ truthy(log[i].cause))
             => /\ log[i].cause = written[i]
                /\ tickets_df[i].existing_cause = written[i]

\* a bulk run has processed again a ticket whose cause an earlier run saved
C9_Witness ==
    \E i \in Rows :
       /\ written[i] # None
       /\ pc = "bulk"
       /\ i <= Len(log)
       /\ truthy(log[i].cause)

\* C10: a Processed outcome has confidence 90 or 70; with 90 its root cause is
\* a catalog phrase, with 70 it is one of the three fallback literals; the
\* phrase made from the work notes is never the root cause of a returned cause.
C10_ConfidenceAndRootCause ==
    CallProcessed
    => /\ call.result.confidence \in {70, 90}
       /\ call.result.cause = compose_cause(call.ticket.service_offering,
                                            call.locals.category,
                                            call.locals.matched_rca)
       /\ call.result.confidence = 90 => member(call.locals.matched_rca, rca_list)
       /\ call.result.confidence = 70 => call.locals.matched_rca \in FallbackLiterals
       /\ call.locals.resolved.reason = NewRCACreated
          => /\ call.result.confidence = 70
             /\ call.locals.matched_rca \in FallbackLiterals

\* work notes longer than 50 characters were cut to 50 and then replaced
C10_Witness ==
    /\ CallProcessed
    /\ call.locals.resolved.reason = NewRCACreated
    /\ Len(strip(str(call.ticket.work_notes))) > RcaMaxLen
    /\ call.locals.resolved.matched_rca =
          prefix(strip(str(call.ticket.work_notes)), RcaMaxLen)
    /\ Len(call.locals.resolved.matched_rca) = RcaMaxLen
    /\ call.locals.matched_rca # call.locals.resolved.matched_rca
====
